---- MODULE Spec2Model ----
(***************************************************************************)
(* Model of the tender search service (app.py): the Google-Sheets CSV      *)
(* cache kept by get_data(), the /filters facet listing and the /search    *)
(* pipeline (free text, structured filters, premium restriction).          *)
(*                                                                         *)
(* Strings are sequences of one-character strings, so that strip(),        *)
(* lower(), substring tests, int() and strptime() are computed and not     *)
(* assumed.  Two values that are not strings are written as one-token      *)
(* sequences: PyNone (Python's None) and NaN (the float pandas stores for  *)
(* a blank CSV cell).                                                      *)
(***************************************************************************)
EXTENDS Integers, Sequences, FiniteSets, TLC

(***************************************************************************)
(* Strings                                                                 *)
(***************************************************************************)
PyNone == <<"None">>
NaN == <<"NaN">>

Range(s) == {s[i] : i \in 1..Len(s)}

\* The characters used by the model, in code-point order.
Alphabet ==
    <<" ", ",", "-", "/", "0", "1", "2", "3", "4", "5", "6", "7", "8", "9",
      "A", "B", "C", "D", "E", "F", "G", "H", "I", "J", "K", "L", "M",
      "N", "O", "P", "Q", "R", "S", "T", "U", "V", "W", "X", "Y", "Z",
      "a", "b", "c", "d", "e", "f", "g", "h", "i", "j", "k", "l", "m",
      "n", "o", "p", "q", "r", "s", "t", "u", "v", "w", "x", "y", "z">>

\* ord(c), counted within the alphabet
OrdOf == [c \in Range(Alphabet) |-> CHOOSE i \in 1..Len(Alphabet) : Alphabet[i] = c]

CharOrd(c) == OrdOf[c]

Digits == <<"0", "1", "2", "3", "4", "5", "6", "7", "8", "9">>

IsDigit(c) == c \in Range(Digits)

DigitVal(c) == (CHOOSE i \in 1..Len(Digits) : Digits[i] = c) - 1

IsUpper(c) == CharOrd("A") <= CharOrd(c) /\ CharOrd(c) <= CharOrd("Z")

LowerOf ==
    [c \in Range(Alphabet) |->
        IF IsUpper(c) THEN Alphabet[CharOrd(c) + (CharOrd("a") - CharOrd("A"))] ELSE c]

LowerChar(c) == LowerOf[c]

\* str.lower()
lower(s) == [i \in 1..Len(s) |-> LowerChar(s[i])]

\* str.strip(): drops the leading and the trailing whitespace.
strip(s) ==
    LET nonblank == {i \in 1..Len(s) : s[i] # " "}
    IN  IF nonblank = {} THEN <<>>
        ELSE LET first == CHOOSE i \in nonblank : \A j \in nonblank : i <= j
                 last  == CHOOSE i \in nonblank : \A j \in nonblank : j <= i
             IN  SubSeq(s, first, last)

\* sub in s
Contains(s, sub) ==
    \E i \in 0..(Len(s) - Len(sub)) : SubSeq(s, i + 1, i + Len(sub)) = sub

\* s.replace(c, "")
RECURSIVE RemoveChar(_, _)
RemoveChar(s, c) ==
    IF s = <<>> THEN <<>>
    ELSE IF Head(s) = c THEN RemoveChar(Tail(s), c)
    ELSE <<Head(s)>> \o RemoveChar(Tail(s), c)

\* Python truthiness of a cell: None and "" are falsy, NaN is truthy.
Truthy(v) == v # PyNone /\ v # <<>>

\* str(v) of a cell
Str(v) ==
    IF v = PyNone THEN <<"N", "o", "n", "e">>
    ELSE IF v = NaN THEN <<"n", "a", "n">>
    ELSE v

\* s < t in Python's string order
RECURSIVE StrLess(_, _)
StrLess(s, t) ==
    IF t = <<>> THEN FALSE
    ELSE IF s = <<>> THEN TRUE
    ELSE IF Head(s) = Head(t) THEN StrLess(Tail(s), Tail(t))
    ELSE CharOrd(Head(s)) < CharOrd(Head(t))

\* sorted(S) for a set of strings
RECURSIVE Sorted(_)
Sorted(S) ==
    IF S = {} THEN <<>>
    ELSE LET m == CHOOSE x \in S : \A y \in S \ {x} : StrLess(x, y)
         IN  <<m>> \o Sorted(S \ {m})

\* The value of a string of digits
RECURSIVE DigitsVal(_)
DigitsVal(s) ==
    IF s = <<>> THEN 0 ELSE 10 * DigitsVal(SubSeq(s, 1, Len(s) - 1)) + DigitVal(s[Len(s)])

AllDigits(s) == s # <<>> /\ \A i \in 1..Len(s) : IsDigit(s[i])

(***************************************************************************)
(* Helper functions                                                        *)
(***************************************************************************)
\* _to_int(v): int() of the text without commas, 0 when int() raises.
_to_int(v) ==
    LET s    == strip(RemoveChar(Str(IF Truthy(v) THEN v ELSE <<"0">>), ","))
        body == IF s # <<>> /\ s[1] = "-" THEN Tail(s) ELSE s
    IN  IF AllDigits(body)
        THEN (IF s[1] = "-" THEN 0 - DigitsVal(body) ELSE DigitsVal(body))
        ELSE 0

\* s.split("-")
RECURSIVE SplitDash(_)
SplitDash(s) ==
    LET dashes == {i \in 1..Len(s) : s[i] = "-"}
    IN  IF dashes = {} THEN <<s>>
        ELSE LET k == CHOOSE i \in dashes : \A j \in dashes : i <= j
             IN  <<SubSeq(s, 1, k - 1)>> \o SplitDash(SubSeq(s, k + 1, Len(s)))

NoDate == [ok |-> FALSE, y |-> 0, m |-> 0, d |-> 0]

IsLeap(y) == (y % 4 = 0 /\ y % 100 # 0) \/ y % 400 = 0

DaysIn(m, y) ==
    IF m = 2 THEN (IF IsLeap(y) THEN 29 ELSE 28)
    ELSE IF m \in {4, 6, 9, 11} THEN 30 ELSE 31

\* strptime's %d: 1..31 in one or two digits, or a space and one digit
DayField(p) ==
    \/ Len(p) = 1 /\ IsDigit(p[1]) /\ p[1] # "0"
    \/ Len(p) = 2 /\ p[1] = " " /\ IsDigit(p[2]) /\ p[2] # "0"
    \/ Len(p) = 2 /\ AllDigits(p) /\ DigitsVal(p) \in 1..31

\* strptime's %m: 1..12 in one or two digits
MonthField(p) ==
    \/ Len(p) = 1 /\ IsDigit(p[1]) /\ p[1] # "0"
    \/ Len(p) = 2 /\ AllDigits(p) /\ DigitsVal(p) \in 1..12

\* strptime's %Y: four digits
YearField(p) == Len(p) = 4 /\ AllDigits(p)

\* date(y, m, d) of three matched fields; ValueError gives NoDate
MakeDate(yp, mp, dp) ==
    LET y == DigitsVal(yp)
        m == DigitsVal(mp)
        d == DigitsVal(strip(dp))
    IN  IF y >= 1 /\ d <= DaysIn(m, y)
        THEN [ok |-> TRUE, y |-> y, m |-> m, d |-> d]
        ELSE NoDate

\* datetime.strptime(s, fmt).date() for the two formats the code tries
Strptime(s, fmt) ==
    LET p == SplitDash(s)
    IN  IF Len(p) # 3 THEN NoDate
        ELSE IF fmt = "%d-%m-%Y"
        THEN (IF DayField(p[1]) /\ MonthField(p[2]) /\ YearField(p[3])
              THEN MakeDate(p[3], p[2], p[1]) ELSE NoDate)
        ELSE (IF YearField(p[1]) /\ MonthField(p[2]) /\ DayField(p[3])
              THEN MakeDate(p[1], p[2], p[3]) ELSE NoDate)

\* search.normalize_date(value): None for a falsy value, for a value that is
\* not a string (value.strip() raises inside the try) and for a string that
\* neither format parses.
normalize_date(value) ==
    IF ~Truthy(value) \/ value = NaN THEN NoDate
    ELSE LET s   == strip(value)
             dmy == Strptime(s, "%d-%m-%Y")
         IN  IF dmy.ok THEN dmy ELSE Strptime(s, "%Y-%m-%d")

\* a >= b for two dates
DateGE(a, b) == a.y * 10000 + a.m * 100 + a.d >= b.y * 10000 + b.m * 100 + b.d

(***************************************************************************)
(* Tables                                                                  *)
(*                                                                         *)
(* A DataFrame is [columns, data]: the header names and, per row, the      *)
(* cells in column order.  df_cache is a DataFrame or NoFrame (None).      *)
(***************************************************************************)
H_Items == <<"I", "t", "e", "m", "s">>
H_Quantity == <<"Q", "u", "a", "n", "t", "i", "t", "y", " ", "R", "e", "q", "u", "i", "r", "e", "d">>
H_State == <<"S", "t", "a", "t", "e">>
H_Department == <<"D", "e", "p", "a", "r", "t", "m", "e", "n", "t">>
H_Category == <<"C", "a", "t", "e", "g", "o", "r", "y">>
H_TenderValue == <<"T", "e", "n", "d", "e", "r", " ", "V", "a", "l", "u", "e">>
H_PublishedDate == <<"P", "u", "b", "l", "i", "s", "h", "e", "d", " ", "D", "a", "t", "e">>
H_ClosingDate == <<"C", "l", "o", "s", "i", "n", "g", " ", "D", "a", "t", "e">>
H_Status == <<"S", "t", "a", "t", "u", "s">>
H_Ministry == <<"M", "i", "n", "i", "s", "t", "r", "y">>
H_StartDate == <<"S", "t", "a", "r", "t", " ", "D", "a", "t", "e">>
H_EndDate == <<"E", "n", "d", " ", "D", "a", "t", "e">>
H_Note == <<"N", "o", "t", "e">>

\* The placeholder of the locked rows
NotAvailable == <<"N", "/", "A">>

\* The upgrade notice of the locked rows (the text after the lock sign)
LockNote == <<"U", "p", "g", "r", "a", "d", "e", " ", "t", "o", " ", "p", "r", "e", "m", "i", "u", "m", " ", "t", "o", " ", "s", "e", "e", " ", "f", "u", "l", "l", " ", "t", "e", "n", "d", "e", "r", " ", "d", "e", "t", "a", "i", "l", "s">>

NoFrame == [none |-> TRUE]

FetchError == [error |-> TRUE]

CACHE_TIMEOUT == 120

\* normalize_headers without the strip
normalize_headers_keep(df) ==
    [df EXCEPT !.columns = [i \in 1..Len(df.columns) |-> Str(df.columns[i])]]

\* normalize_headers(df): every header stripped
normalize_headers(df) ==
    [df EXCEPT !.columns = [i \in 1..Len(df.columns) |-> strip(Str(df.columns[i]))]]

\* pd.DataFrame() without the columns
EmptyFrameNoColumns == [columns |-> <<>>, data |-> <<>>]

\* pd.DataFrame(columns=[...]) of the except branch of get_data
EmptyFrame ==
    [columns |-> <<H_Items, H_Quantity, H_State, H_Department, H_Category,
                   H_TenderValue, H_PublishedDate, H_ClosingDate, H_Status>>,
     data    |-> <<>>]

\* A staleness test that leaves the freshness window out
StaleNoWindow(cache, fetched_at, now) ==
    cache = NoFrame \/ (now - fetched_at) > 0

\* The condition under which get_data refreshes
Stale(cache, fetched_at, now) ==
    cache = NoFrame \/ (now - fetched_at) > CACHE_TIMEOUT

\* get_data() whose except branch leaves last_fetched as it was
get_data_no_stamp(cache, fetched_at, now, fetch) ==
    IF Stale(cache, fetched_at, now)
    THEN IF fetch # FetchError
         THEN [df_cache |-> normalize_headers(fetch), last_fetched |-> now,
               ret |-> normalize_headers(fetch), fetched |-> TRUE, ok |-> TRUE]
         ELSE [df_cache |-> EmptyFrame, last_fetched |-> fetched_at,
               ret |-> EmptyFrame, fetched |-> TRUE, ok |-> FALSE]
    ELSE [df_cache |-> cache, last_fetched |-> fetched_at,
          ret |-> cache, fetched |-> FALSE, ok |-> FALSE]

\* get_data() run at time now, where fetch is what pd.read_csv would return
\* (a DataFrame) or raise (FetchError) if it were called.  The result gives
\* the globals after the call, the DataFrame returned, and whether read_csv
\* was called.
get_data(cache, fetched_at, now, fetch) ==
    IF Stale(cache, fetched_at, now)
    THEN IF fetch # FetchError
         THEN [df_cache |-> normalize_headers(fetch), last_fetched |-> now,
               ret |-> normalize_headers(fetch), fetched |-> TRUE, ok |-> TRUE]
         ELSE [df_cache |-> EmptyFrame, last_fetched |-> now,
               ret |-> EmptyFrame, fetched |-> TRUE, ok |-> FALSE]
    ELSE [df_cache |-> cache, last_fetched |-> fetched_at,
          ret |-> cache, fetched |-> FALSE, ok |-> FALSE]

\* The position of the column called h (the last one, if several are)
ColIndex(columns, h) ==
    CHOOSE i \in 1..Len(columns) :
        columns[i] = h /\ \A j \in 1..Len(columns) : columns[j] = h => j <= i

\* df.to_dict(orient="records")
to_dict(df) ==
    LET at == [h \in Range(df.columns) |-> ColIndex(df.columns, h)]
    IN  [i \in 1..Len(df.data) |-> [h \in Range(df.columns) |-> df.data[i][at[h]]]]

\* r.get(key) and r.get(key, default)
Get(r, key, default) == IF key \in DOMAIN r THEN r[key] ELSE default

\* filters.get_unique(col)
get_unique(df, col) ==
    IF col \in Range(df.columns)
    THEN Sorted({df.data[i][ColIndex(df.columns, col)] : i \in 1..Len(df.data)} \ {NaN})
    ELSE <<>>

\* The body of the /filters response for the DataFrame df
facets(df) ==
    [ministries  |-> get_unique(df, H_Ministry),
     departments |-> get_unique(df, H_Department),
     categories  |-> get_unique(df, H_Category),
     states      |-> get_unique(df, H_State),
     statuses    |-> get_unique(df, H_Status)]

\* df.columns = [c.strip() for c in df.columns] of filters(), done on the
\* DataFrame object that get_data returned, which is the cached one
strip_columns(df) ==
    [df EXCEPT !.columns = [i \in 1..Len(df.columns) |-> strip(df.columns[i])]]

(***************************************************************************)
(* /search                                                                 *)
(*                                                                         *)
(* A request is [route, args, tier]; args maps every query parameter to    *)
(* its text, or to PyNone when the parameter is absent.                    *)
(***************************************************************************)
ArgNames ==
    {"q", "ministry", "department", "category", "state", "status",
     "minValue", "maxValue", "date", "closing"}

NoArgs == [a \in ArgNames |-> PyNone]

\* request.args.get(name, "").lower()
ArgLower(args, name) == IF args[name] = PyNone THEN <<>> ELSE lower(args[name])

\* request.args.get(name, type=int): <<n>>, or <<>> (None) when the
\* parameter is absent or int() raises ValueError
ArgInt(args, name) ==
    LET s    == IF args[name] = PyNone THEN <<>> ELSE strip(args[name])
        body == IF s # <<>> /\ s[1] = "-" THEN Tail(s) ELSE s
    IN  IF AllDigits(body)
        THEN (IF s[1] = "-" THEN <<0 - DigitsVal(body)>> ELSE <<DigitsVal(body)>>)
        ELSE <<>>

\* The subscription row that search() looks up: only a logged-in user with
\* an active subscription has one
subscription(tier) == tier = "Premium"

\* search.match(val, key)
match(val, key) == Contains(lower(Str(IF Truthy(val) THEN val ELSE <<>>)), key)

\* The free-text step: the rows of df in which some cell, as text in lower
\* case, contains the query; every row when the query is empty
\* (str.contains reads the query as a regular expression; the characters of
\* Alphabet all stand for themselves in one)
free_text(df, query) ==
    to_dict(IF query # <<>>
            THEN [df EXCEPT !.data = SelectSeq(df.data,
                     LAMBDA cells : \E i \in 1..Len(cells) :
                                        Contains(lower(Str(cells[i])), query))]
            ELSE df)

\* One of the two date-range statements.  bound is the parameter's text and
\* key the column.  The list comprehension compares every row whose date
\* parses with the parsed bound; when the bound did not parse that
\* comparison raises TypeError, which the except clause swallows, so the
\* results are left as they were.
date_filter(results, bound, key, atLeast) ==
    IF ~Truthy(bound) THEN results
    ELSE LET f_date == normalize_date(bound)
             row_date(r) == normalize_date(Get(r, key, PyNone))
         IN  IF ~f_date.ok /\ \E i \in 1..Len(results) : row_date(results[i]).ok
             THEN results
             ELSE SelectSeq(results,
                      LAMBDA r : /\ row_date(r).ok
                                 /\ f_date.ok
                                 /\ IF atLeast THEN DateGE(row_date(r), f_date)
                                    ELSE DateGE(f_date, row_date(r)))

\* One of the five statements that keep the rows whose column col contains
\* the parameter's text
text_filter(results, key, col) ==
    IF key # <<>>
    THEN SelectSeq(results, LAMBDA r : match(Get(r, col, PyNone), key))
    ELSE results

\* One of the two statements that bound the tender value
value_filter(results, bound, atLeast) ==
    IF bound # <<>>
    THEN SelectSeq(results, LAMBDA r :
             IF atLeast THEN _to_int(Get(r, H_TenderValue, PyNone)) >= bound[1]
             ELSE _to_int(Get(r, H_TenderValue, PyNone)) <= bound[1])
    ELSE results

\* The filter statement of search() for one query parameter
apply_filter(results, args, name) ==
    CASE name = "ministry" -> text_filter(results, ArgLower(args, name), H_Ministry)
      [] name = "department" -> text_filter(results, ArgLower(args, name), H_Department)
      [] name = "category" -> text_filter(results, ArgLower(args, name), H_Category)
      [] name = "state" -> text_filter(results, ArgLower(args, name), H_State)
      [] name = "status" -> text_filter(results, ArgLower(args, name), H_Status)
      [] name = "minValue" -> value_filter(results, ArgInt(args, name), TRUE)
      [] name = "maxValue" -> value_filter(results, ArgInt(args, name), FALSE)
      [] name = "date" -> date_filter(results, args[name], H_StartDate, TRUE)
      [] name = "closing" -> date_filter(results, args[name], H_EndDate, FALSE)

\* The order in which search() runs its filter statements
FilterOrder ==
    <<"ministry", "department", "category", "state", "status",
      "minValue", "maxValue", "date", "closing">>

\* The filter statements named by order, run one after the other
RECURSIVE run_filters(_, _, _)
run_filters(results, args, order) ==
    IF order = <<>> THEN results
    ELSE run_filters(apply_filter(results, args, Head(order)), args, Tail(order))

\* A locked row that keeps the fields of r and adds the notice
locked_leaky(r) ==
    (H_Note :> LockNote) @@ r

\* The row a caller without a subscription gets in place of r
locked(r) ==
    (H_Items :> Get(r, H_Items, NotAvailable))
    @@ (H_Quantity :> Get(r, H_Quantity, NotAvailable))
    @@ (H_Note :> LockNote)

\* The premium restriction of search()
restrict(results, tier) ==
    IF ~subscription(tier)
    THEN [i \in 1..Len(results) |-> locked(results[i])]
    ELSE results

\* search() with the premium restriction applied before the filters
search_restrict_first(df, args, tier) ==
    run_filters(restrict(free_text(df, ArgLower(args, "q")), tier), args, FilterOrder)

\* The "results" of the /search response for the DataFrame df
search(df, args, tier) ==
    restrict(run_filters(free_text(df, ArgLower(args, "q")), args, FilterOrder), tier)

(***************************************************************************)
(* The inputs                                                              *)
(***************************************************************************)
\* What pd.read_csv(CSV_URL, dtype=str) returns for two states of the
\* sheet: every cell a string, NaN for a blank cell, the headers as typed.
SheetA ==
    [columns |-> <<<<"I", "t", "e", "m", "s">>, <<"Q", "u", "a", "n", "t", "i", "t", "y", " ", "R", "e", "q", "u", "i", "r", "e", "d">>, <<" ", "S", "t", "a", "t", "e", " ">>, <<"T", "e", "n", "d", "e", "r", " ", "V", "a", "l", "u", "e">>, <<"S", "t", "a", "r", "t", " ", "D", "a", "t", "e">>, <<"E", "n", "d", " ", "D", "a", "t", "e">>>>,
     data |-> <<
        <<<<"p", "e", "n">>, <<"1", "0">>, <<"U", "P">>, <<"1", ",", "2", "3", "4">>, <<"1", "5", "-", "0", "1", "-", "2", "0", "2", "4">>, <<"2", "0", "2", "4", "-", "0", "2", "-", "2", "0">>>>,
        <<<<"i", "n", "k">>, NaN, <<"M", "P">>, <<"a", "b", "c">>, NaN, <<"2", "0", "-", "0", "1", "-", "2", "0", "2", "4">>>>,
        <<<<"c", "u", "p">>, <<"5">>, <<"u", "p">>, <<"5", "0">>, <<"2", "0", "2", "4", "-", "0", "1", "-", "2", "0">>, <<"s", "o", "o", "n">>>>>>]

SheetB ==
    [columns |-> <<<<"S", "t", "a", "t", "u", "s", " ">>, <<"S", "t", "a", "t", "e">>, <<"S", "t", "a", "r", "t", " ", "D", "a", "t", "e">>>>,
     data |-> <<
        <<<<"o", "p", "e", "n">>, <<"U", "P">>, <<"t", "b", "d">>>>,
        <<<<"s", "h", "u", "t">>, <<"M", "P">>, <<"0", "1", "-", "0", "3", "-", "2", "0", "2", "4">>>>>>]

RawTables == {SheetA, SheetB}

FetchOutcomes == RawTables \cup {FetchError}

Tiers == {"Anonymous", "Free", "Premium"}

\* The query strings a request of the model may carry
Requests ==
    {NoArgs,
     [NoArgs EXCEPT !["q"] = <<"U", "P">>],
     [NoArgs EXCEPT !["state"] = <<"m", "p">>],
     [NoArgs EXCEPT !["status"] = <<"o", "p", "e", "n">>],
     [NoArgs EXCEPT !["ministry"] = <<"x">>],
     [NoArgs EXCEPT !["department"] = <<"x">>, !["category"] = <<"x">>],
     [NoArgs EXCEPT !["minValue"] = <<"5", "0">>, !["maxValue"] = <<"1", "0", "0">>],
     [NoArgs EXCEPT !["minValue"] = <<"1", ",", "0">>],
     [NoArgs EXCEPT !["date"] = <<"2", "0", "2", "4", "-", "0", "1", "-", "1", "5">>],
     [NoArgs EXCEPT !["date"] = <<"s", "o", "o", "n">>],
     [NoArgs EXCEPT !["closing"] = <<"2", "0", "2", "4", "-", "0", "2", "-", "0", "1">>],
     [NoArgs EXCEPT !["state"] = <<"m", "p">>, !["date"] = <<"s", "o", "o", "n">>],
     [NoArgs EXCEPT !["date"] = <<"1", "6", "-", "0", "1", "-", "2", "0", "2", "4">>, !["closing"] = <<"x">>]}

\* The clock: where it starts, how far it runs and the steps it takes
StartTime == 1000

MaxTime == 1122

TickSteps == {CACHE_TIMEOUT \div 2, CACHE_TIMEOUT \div 2 + 1}

(***************************************************************************)
(* The service handling one request at a time                              *)
(***************************************************************************)
VARIABLES
    df_cache,       \* the global df_cache
    last_fetched,   \* the global last_fetched
    clock,          \* time.time()
    req,            \* the last request handled
    resp,           \* the body of its response
    call,           \* history: the get_data() call of the last request
    lastOk,         \* history: <<[at, table]>> of the last read_csv that returned
    lastFail,       \* history: <<at>> of the last read_csv that raised
    published,      \* history: the globals as the last refresh assigned them
    pc,             \* concurrent callers: where each thread is in get_data()
    tnow,           \* concurrent callers: the local now of each thread
    pending         \* concurrent callers: what each thread is about to store

vars ==
    <<df_cache, last_fetched, clock, req, resp, call, lastOk, lastFail,
      published, pc, tnow, pending>>

Threads == {"t1", "t2"}

threadVars == <<pc, tnow, pending>>

historyVars == <<req, resp, call, lastOk, lastFail, published>>

Init ==
    /\ df_cache = NoFrame
    /\ last_fetched = 0
    /\ clock = StartTime
    /\ req = [route |-> "none", args |-> NoArgs, tier |-> "Anonymous"]
    /\ resp = <<>>
    /\ call = [now |-> 0, fetched |-> FALSE, ok |-> FALSE, ret |-> NoFrame,
               before |-> NoFrame, okBefore |-> <<>>, failBefore |-> <<>>]
    /\ lastOk = <<>>
    /\ lastFail = <<>>
    /\ published = [df_cache |-> NoFrame, last_fetched |-> 0]
    /\ pc = [t \in Threads |-> "idle"]
    /\ tnow = [t \in Threads |-> 0]
    /\ pending = [t \in Threads |-> NoFrame]

\* Time passes; time.time() is taken never to run backwards
Tick ==
    /\ \E d \in TickSteps :
          /\ clock + d <= MaxTime
          /\ clock' = clock + d
    /\ UNCHANGED <<df_cache, last_fetched, historyVars, threadVars>>

\* The history of a get_data() call with result g
Record(g) ==
    /\ call' = [now |-> clock, fetched |-> g.fetched, ok |-> g.ok, ret |-> g.ret,
                before |-> df_cache, okBefore |-> lastOk, failBefore |-> lastFail]
    /\ lastOk' = IF g.fetched /\ g.ok THEN <<[at |-> clock, table |-> g.ret]>> ELSE lastOk
    /\ lastFail' = IF g.fetched /\ ~g.ok THEN <<clock>> ELSE lastFail
    /\ published' = IF g.fetched
                    THEN [df_cache |-> g.df_cache, last_fetched |-> g.last_fetched]
                    ELSE published

\* What read_csv can do in a call made now; it is not called, and so its
\* outcome is of no account, when the cache is fresh
Outcomes ==
    IF Stale(df_cache, last_fetched, clock) THEN FetchOutcomes ELSE {FetchError}

\* GET /filters
Filters ==
    \E fetch \in Outcomes :
        LET g  == get_data(df_cache, last_fetched, clock, fetch)
            df == strip_columns(g.ret)
        IN  /\ df_cache' = df
            /\ last_fetched' = g.last_fetched
            /\ req' = [route |-> "filters", args |-> NoArgs, tier |-> "Anonymous"]
            /\ resp' = facets(df)
            /\ Record(g)
            /\ UNCHANGED <<clock, threadVars>>

\* GET /search
Search ==
    \E fetch \in Outcomes, args \in Requests, tier \in Tiers :
        LET g == get_data(df_cache, last_fetched, clock, fetch)
        IN  /\ df_cache' = g.df_cache
            /\ last_fetched' = g.last_fetched
            /\ req' = [route |-> "search", args |-> args, tier |-> tier]
            /\ resp' = search(g.ret, args, tier)
            /\ Record(g)
            /\ UNCHANGED <<clock, threadVars>>

Next == Tick \/ Filters \/ Search

Spec == Init /\ [][Next]_vars

(***************************************************************************)
(* get_data() called by concurrent request threads.  No lock is taken in   *)
(* get_data(), so its statements interleave; each action below is one      *)
(* statement of one thread.                                                *)
(***************************************************************************)
\* The steps the clock takes between statements
ConcTickSteps == {CACHE_TIMEOUT + 1}

ConcTick ==
    /\ \E d \in ConcTickSteps :
          /\ clock + d <= MaxTime
          /\ clock' = clock + d
    /\ UNCHANGED <<df_cache, last_fetched, historyVars, threadVars>>

\* now = time.time()
ReadClock(t) ==
    /\ pc[t] = "idle"
    /\ tnow' = [tnow EXCEPT ![t] = clock]
    /\ pc' = [pc EXCEPT ![t] = "check"]
    /\ UNCHANGED <<df_cache, last_fetched, clock, historyVars, pending>>

\* if df_cache is None or (now - last_fetched) > CACHE_TIMEOUT:
\* a thread that finds the cache stale goes on to call pd.read_csv
CheckStale(t) ==
    /\ pc[t] = "check"
    /\ pc' = [pc EXCEPT ![t] =
                 IF Stale(df_cache, last_fetched, tnow[t]) THEN "fetch" ELSE "return"]
    /\ UNCHANGED <<df_cache, last_fetched, clock, historyVars, tnow, pending>>

\* pd.read_csv returns, and normalize_headers is applied
FetchReturns(t) ==
    /\ pc[t] = "fetch"
    /\ \E raw \in RawTables : pending' = [pending EXCEPT ![t] = normalize_headers(raw)]
    /\ pc' = [pc EXCEPT ![t] = "store_cache"]
    /\ UNCHANGED <<df_cache, last_fetched, clock, historyVars, tnow>>

\* pd.read_csv raises
FetchRaises(t) ==
    /\ pc[t] = "fetch"
    /\ pending' = [pending EXCEPT ![t] = EmptyFrame]
    /\ pc' = [pc EXCEPT ![t] = "store_cache"]
    /\ UNCHANGED <<df_cache, last_fetched, clock, historyVars, tnow>>

\* df_cache = ...
StoreCache(t) ==
    /\ pc[t] = "store_cache"
    /\ df_cache' = pending[t]
    /\ pc' = [pc EXCEPT ![t] = "store_time"]
    /\ UNCHANGED <<last_fetched, clock, historyVars, tnow, pending>>

\* last_fetched = now
StoreTime(t) ==
    /\ pc[t] = "store_time"
    /\ last_fetched' = tnow[t]
    /\ pc' = [pc EXCEPT ![t] = "return"]
    /\ UNCHANGED <<df_cache, clock, historyVars, tnow, pending>>

\* return df_cache
Return(t) ==
    /\ pc[t] = "return"
    /\ pc' = [pc EXCEPT ![t] = "idle"]
    /\ pending' = [pending EXCEPT ![t] = NoFrame]
    /\ UNCHANGED <<df_cache, last_fetched, clock, historyVars, tnow>>

ConcNext ==
    \/ ConcTick
    \/ \E t \in Threads :
          \/ ReadClock(t)
          \/ CheckStale(t)
          \/ FetchReturns(t)
          \/ FetchRaises(t)
          \/ StoreCache(t)
          \/ StoreTime(t)
          \/ Return(t)

ConcSpec == Init /\ [][ConcNext]_vars

(***************************************************************************)
(* Properties                                                              *)
(***************************************************************************)
\* The rows search() had matched before the premium restriction
Matched ==
    run_filters(free_text(call.ret, ArgLower(req.args, "q")), req.args, FilterOrder)

Handled == req.route # "none"

\* C1: when the refresh of a get_data() call fails while the cache holds a
\* table fetched earlier, the call returns that table and the cache still
\* holds it afterwards.
C1_PriorTableKeptOnFailure ==
    (/\ Handled
     /\ call.fetched /\ ~call.ok
     /\ call.okBefore # <<>>
     /\ call.before = call.okBefore[1].table)
    => (call.ret = call.before /\ df_cache = call.before)

\* C2: under concurrent callers of get_data() at most one call of the fetch
\* primitive (pd.read_csv) is in flight at any instant.
C2_AtMostOneFetchInFlight ==
    Cardinality({t \in Threads : pc[t] = "fetch"}) <= 1

\* C3: a get_data() call made less than one freshness window after the last
\* successful fetch returns the table of that fetch and does not call the
\* fetch primitive.
C3_FreshCacheServed ==
    (/\ Handled
     /\ call.okBefore # <<>>
     /\ call.now - call.okBefore[1].at < CACHE_TIMEOUT)
    => (~call.fetched /\ call.ret = call.okBefore[1].table)

C3_Witness ==
    /\ Handled
    /\ call.okBefore # <<>>
    /\ call.now - call.okBefore[1].at > 0
    /\ call.now - call.okBefore[1].at < CACHE_TIMEOUT
    /\ ~call.fetched
    /\ call.ret = call.okBefore[1].table

\* C4: after a failed refresh no get_data() call attempts a fetch until more
\* than one freshness window has passed since the failed attempt.
C4_RetryAtMostOncePerWindow ==
    (/\ Handled
     /\ call.fetched
     /\ call.failBefore # <<>>)
    => call.now - call.failBefore[1] > CACHE_TIMEOUT

C4_Witness ==
    /\ Handled
    /\ call.failBefore # <<>>
    /\ call.okBefore = <<>>
    /\ call.now - call.failBefore[1] > 0
    /\ call.now - call.failBefore[1] <= CACHE_TIMEOUT
    /\ ~call.fetched

\* C5: when the fetch fails and no table has ever been fetched, get_data()
\* returns a table with no rows whose columns are exactly the nine expected
\* column names.
C5_EmptyCanonicalOnFirstFailure ==
    (/\ Handled
     /\ call.fetched /\ ~call.ok
     /\ call.okBefore = <<>>)
    => (/\ call.ret # NoFrame
        /\ call.ret.data = <<>>
        /\ Len(call.ret.columns) = 9
        /\ Range(call.ret.columns) =
              {H_Items, H_Quantity, H_State, H_Department, H_Category,
               H_TenderValue, H_PublishedDate, H_ClosingDate, H_Status})

C5_Witness ==
    /\ Handled
    /\ call.fetched /\ ~call.ok
    /\ call.okBefore = <<>>
    /\ call.before = NoFrame
    /\ call.ret.data = <<>>

\* C6: for the same table and the same query parameters, a Premium request
\* and a request of another tier select the same rows in the same order;
\* the rows of the other tiers are the locked forms of the Premium rows.
C6_FilteringIndependentOfTier ==
    (req.route = "search") =>
        LET full == search(call.ret, req.args, "Premium")
            free == search(call.ret, req.args, "Free")
            anon == search(call.ret, req.args, "Anonymous")
        IN  /\ Len(free) = Len(full)
            /\ anon = free
            /\ \A i \in 1..Len(full) : free[i] = locked(full[i])
            /\ resp = (IF req.tier = "Premium" THEN full ELSE free)

C6_Witness ==
    /\ req.route = "search"
    /\ req.tier = "Free"
    /\ req.args["state"] # PyNone
    /\ Len(resp) > 0
    /\ Len(resp) < Len(call.ret.data)

\* C7: a Premium caller gets every matched row unmodified; any other caller
\* gets, for every matched row, exactly the fields Items, Quantity Required
\* and Note: the first two from the row, or the placeholder when the row
\* lacks the field, and Note the fixed notice.
C7_ProjectionByTier ==
    (req.route = "search") =>
        IF req.tier = "Premium" THEN resp = Matched
        ELSE /\ Len(resp) = Len(Matched)
             /\ \A i \in 1..Len(resp) :
                   /\ DOMAIN resp[i] = {H_Items, H_Quantity, H_Note}
                   /\ resp[i][H_Items] =
                         (IF H_Items \in DOMAIN Matched[i]
                          THEN Matched[i][H_Items] ELSE NotAvailable)
                   /\ resp[i][H_Quantity] =
                         (IF H_Quantity \in DOMAIN Matched[i]
                          THEN Matched[i][H_Quantity] ELSE NotAvailable)
                   /\ resp[i][H_Note] = LockNote

C7_Witness ==
    /\ req.route = "search"
    /\ req.tier = "Anonymous"
    /\ Len(resp) > 0
    /\ resp[1][H_Items] = NotAvailable
    /\ H_State \in DOMAIN Matched[1]

\* C8: any two filter statements of search() commute: on the rows that the
\* free-text step selected, running one and then the other gives the same
\* rows as running them the other way round.
C8_FiltersCommute ==
    (req.route = "search") =>
        LET rows == free_text(call.ret, ArgLower(req.args, "q"))
        IN  \A a, b \in Range(FilterOrder) :
                apply_filter(apply_filter(rows, req.args, a), req.args, b)
                = apply_filter(apply_filter(rows, req.args, b), req.args, a)

\* C9: the cached table and its timestamp are always the ones the last
\* refresh in get_data() assigned, and a request whose get_data() call did
\* not refresh leaves the cached table as it was.
C9_OnlyRefreshChangesCache ==
    /\ df_cache = published.df_cache
    /\ last_fetched = published.last_fetched
    /\ (Handled /\ ~call.fetched) => df_cache = call.before

C9_Witness ==
    /\ req.route = "filters"
    /\ call.fetched /\ call.ok
    /\ df_cache = normalize_headers(SheetA)
    /\ resp.states # <<>>

\* C10: when a date bound is supplied, the rows kept by its statement are
\* exactly the rows whose date parses and satisfies the bound; when none is
\* supplied the statement keeps every row.
DateExpected(rows, bound, key, atLeast) ==
    IF ~Truthy(bound) THEN rows
    ELSE SelectSeq(rows,
             LAMBDA r :
                 LET d == normalize_date(Get(r, key, PyNone))
                     f == normalize_date(bound)
                 IN  /\ d.ok
                     /\ f.ok
                     /\ IF atLeast THEN DateGE(d, f) ELSE DateGE(f, d))

C10_DateRangeKeepsParsedRowsInBound ==
    (req.route = "search") =>
        LET rows == run_filters(free_text(call.ret, ArgLower(req.args, "q")), req.args,
                                SubSeq(FilterOrder, 1, 7))
        IN  Matched = DateExpected(DateExpected(rows, req.args["date"], H_StartDate, TRUE),
                                   req.args["closing"], H_EndDate, FALSE)

====
